---- MODULE Spec2Model ----
(***************************************************************************)
(* QX matrix analyzer (src/app.py, class QXMatrixAnalyzer).                *)
(*                                                                         *)
(* The analyzer holds a decoded grid (self.data, a pandas DataFrame read   *)
(* with header=None), the uploaded file object (self.excel_file) and the   *)
(* lazily loaded xlrd workbook (self._xlrd_book / self._xlrd_sheet).       *)
(* Every public method is one action; the value it returns (or the fact    *)
(* that it raised) is recorded in `last`.                                  *)
(*                                                                         *)
(* A cell text is a sequence of one-character strings.  An empty cell is   *)
(* NaN.  A grid is [nrows, ncols, cells] where cells maps the populated    *)
(* positions <<row, col>> to their text; every other position inside the   *)
(* grid is NaN, every position outside raises IndexError on iloc.          *)
(***************************************************************************)
EXTENDS Integers, Sequences, FiniteSets, TLC

VARIABLES data, excel_file, xlrd_book, last

vars == <<data, excel_file, xlrd_book, last>>

(***************************************************************************)
(* Strings                                                                 *)
(***************************************************************************)
NaN == <<"NaN">>

\* str(x): the text of a cell, "nan" for an empty one
StrOf(cell) == IF cell = NaN THEN <<"n", "a", "n">> ELSE cell

\* pd.notna(x)
NotNa(cell) == cell # NaN

\* str.lower(), one character
LowerChar(ch) ==
    CASE ch = "A" -> "a"
      [] ch = "B" -> "b"
      [] OTHER -> ch

\* str.lower()
Lower(s) == [i \in 1..Len(s) |-> LowerChar(s[i])]

RECURSIVE LStrip(_)
LStrip(s) == IF s # <<>> /\ Head(s) = " " THEN LStrip(Tail(s)) ELSE s

RECURSIVE RStrip(_)
RStrip(s) ==
    IF s # <<>> /\ s[Len(s)] = " " THEN RStrip(SubSeq(s, 1, Len(s) - 1)) ELSE s

\* str.strip()
Strip(s) == RStrip(LStrip(s))

\* Series.str.contains(pat, na=False): regex=True by default, so the pattern
\* is searched as a regular expression (re.search); in a pattern of literal
\* characters and '.', the '.' matches any one character.
StrContains(s, pat) ==
    \E i \in 0..(Len(s) - Len(pat)) :
        \A j \in 1..Len(pat) : pat[j] = "." \/ pat[j] = s[i + j]

\* markers = ['ê', 'è', 'ç', 'ª']
markers == {<<"ê">>, <<"è">>, <<"ç">>, <<"ª">>}

\* target_marker = 'ç'
target_marker == <<"ç">>

\* the parameter link tested with the four markers in place of the pair
AnyMarkerLinks == markers

\* the stricter pair used for the component/parameter link: ['è', 'ê']
param_markers == {<<"è">>, <<"ê">>}

(***************************************************************************)
(* Fixed layout                                                            *)
(***************************************************************************)
\* defect_row_idx = 15: the row of the defect names and of the component names
defect_row_idx == 15
\* valid_defects.index >= 78
MinDefectCol == 78
\* the label / parameter-name column and the parameter-value column
LabelCol == 75
ValueCol == 76
\* range(3, 15): rows scanned for the defect marker, and for the colour row
SubRowFirst == 3
SubRowEnd == 15
\* range(3, 14): rows scanned for a sub-assembly label
LabelRowEnd == 14
\* the fallback cell (13, 75)
FallbackRow == 13
\* range(0, 74): component columns
CompColEnd == 74
\* range(17, len(self.data)): parameter rows
ParamRowFirst == 17

(***************************************************************************)
(* Grid access                                                             *)
(***************************************************************************)
\* len(self.data), len(self.data.columns)
NRows(d) == d.nrows
NCols(d) == d.ncols

InGrid(d, r, c) == r < NRows(d) /\ c < NCols(d)

\* self.data.iloc[r, c] for a position inside the grid
Iloc(d, r, c) == IF <<r, c>> \in DOMAIN d.cells THEN d.cells[<<r, c>>] ELSE NaN

\* results of a call: a value, or an exception that left the method
Ret(v) == [raised |-> FALSE, val |-> v]
Raise == [raised |-> TRUE, val |-> <<>>]

\* Python's None where a column index or a colour index is expected
NoneCol == 0 - 1

Min(S) == CHOOSE x \in S : \A y \in S : x <= y

\* the members of a set of integers, ascending
RECURSIVE Ascending(_)
Ascending(S) == IF S = {} THEN <<>> ELSE <<Min(S)>> \o Ascending(S \ {Min(S)})

InSeq(x, s) == \E i \in 1..Len(s) : s[i] = x

\* order-keeping deduplication: "if comp not in seen: seen.add; append"
RECURSIVE Dedup(_, _)
Dedup(s, acc) ==
    IF s = <<>> THEN acc
    ELSE Dedup(Tail(s), IF InSeq(Head(s), acc) THEN acc ELSE Append(acc, Head(s)))

(***************************************************************************)
(* find_defect_column                                                      *)
(***************************************************************************)
\* mask = defect_row.notna() & defect_row.astype(str).str.lower()
\*            .str.contains(defect_name.lower(), na=False)
DefectMask(d, defect_name) ==
    {c \in 0..(NCols(d) - 1) :
        /\ NotNa(Iloc(d, defect_row_idx, c))
        /\ StrContains(Lower(StrOf(Iloc(d, defect_row_idx, c))), Lower(defect_name))}

find_defect_column(d, defect_name) ==
    IF defect_row_idx >= NRows(d) THEN NoneCol
    ELSE LET matches == DefectMask(d, defect_name)
         IN  IF matches # {} THEN Min(matches) ELSE NoneCol

(***************************************************************************)
(* list_all_defects                                                        *)
(***************************************************************************)
\* valid_mask = defect_row.notna() & (defect_row.astype(str).str.strip() != '')
ValidMask(d) ==
    {c \in 0..(NCols(d) - 1) :
        /\ NotNa(Iloc(d, defect_row_idx, c))
        /\ Strip(StrOf(Iloc(d, defect_row_idx, c))) # <<>>}

\* the list without the filter on the column index
ValidDefectsNoMin(d) == ValidMask(d)

\* valid_defects[valid_defects.index >= 78]
ValidDefects(d) == {c \in ValidMask(d) : c >= MinDefectCol}

list_all_defects(d) ==
    IF defect_row_idx >= NRows(d) THEN <<>>
    ELSE LET cols == Ascending(ValidDefects(d))
         IN  [i \in 1..Len(cols) |->
                 <<cols[i], Strip(StrOf(Iloc(d, defect_row_idx, cols[i])))>>]

(***************************************************************************)
(* get_sous_ensembles                                                      *)
(***************************************************************************)
\* sub_name = self.data.iloc[row, 75] if 75 < len(self.data.columns) else None
\* (None and NaN are both "not notna"); the row is not checked.
LabelCell(d, row) == IF LabelCol < NCols(d) THEN Iloc(d, row, LabelCol) ELSE NaN

\* the pass without the "name not in sous_ensembles" test
SousStepNoDedup(d, defect_col, row_idx, sous_ensembles) ==
    IF /\ row_idx < NRows(d) /\ defect_col < NCols(d)
       /\ NotNa(Iloc(d, row_idx, defect_col))
       /\ Strip(StrOf(Iloc(d, row_idx, defect_col))) = target_marker
       /\ NotNa(LabelCell(d, row_idx))
       /\ Strip(StrOf(LabelCell(d, row_idx))) # <<>>
    THEN Append(sous_ensembles, Strip(StrOf(LabelCell(d, row_idx))))
    ELSE sous_ensembles

\* one pass of "for row_idx in range(3, 15)"
SousStep(d, defect_col, row_idx, sous_ensembles) ==
    IF row_idx < NRows(d) /\ defect_col < NCols(d)
    THEN LET cell == Iloc(d, row_idx, defect_col)
         IN  IF NotNa(cell) /\ Strip(StrOf(cell)) = target_marker
             THEN LET sub_name == LabelCell(d, row_idx)
                  IN  IF NotNa(sub_name)
                      THEN LET name == Strip(StrOf(sub_name))
                           IN  IF name # <<>> /\ ~InSeq(name, sous_ensembles)
                               THEN Append(sous_ensembles, name)
                               ELSE sous_ensembles
                      ELSE sous_ensembles
             ELSE sous_ensembles
    ELSE sous_ensembles

RECURSIVE SousScan(_, _, _, _)
SousScan(d, defect_col, row_idx, sous_ensembles) ==
    IF row_idx >= SubRowEnd THEN sous_ensembles
    ELSE SousScan(d, defect_col, row_idx + 1,
                  SousStep(d, defect_col, row_idx, sous_ensembles))

\* "if not sous_ensembles": self.data.iloc[13, 75] is read without a row check
SousFallback(d) ==
    IF LabelCol < NCols(d)
    THEN IF FallbackRow >= NRows(d) THEN Raise
         ELSE LET sub_name == Iloc(d, FallbackRow, LabelCol)
              IN  IF NotNa(sub_name) THEN Ret(<<Strip(StrOf(sub_name))>>)
                  ELSE Ret(<<>>)
    ELSE Ret(<<>>)

get_sous_ensembles(d, defect_col) ==
    LET sous_ensembles == SousScan(d, defect_col, SubRowFirst, <<>>)
    IN  IF sous_ensembles = <<>> THEN SousFallback(d) ELSE Ret(sous_ensembles)

(***************************************************************************)
(* get_composants                                                          *)
(***************************************************************************)
\* "for row_idx in range(3, 14)": the row whose label equals the name, None
\* when no row does; iloc[row_idx, 75] is read without a row check.
RECURSIVE SubRowScan(_, _, _)
SubRowScan(d, sous_ensemble_name, row_idx) ==
    IF row_idx >= LabelRowEnd THEN Ret(NoneCol)
    ELSE IF LabelCol < NCols(d)
         THEN IF row_idx >= NRows(d) THEN Raise
              ELSE LET sub_name == Iloc(d, row_idx, LabelCol)
                   IN  IF NotNa(sub_name) /\ Strip(StrOf(sub_name)) = sous_ensemble_name
                       THEN Ret(row_idx)
                       ELSE SubRowScan(d, sous_ensemble_name, row_idx + 1)
         ELSE SubRowScan(d, sous_ensemble_name, row_idx + 1)

FindSubRow(d, sous_ensemble_name) == SubRowScan(d, sous_ensemble_name, SubRowFirst)

\* the marker test with the pair of the parameter link in place of the four
HasMarkerPair(d, sub_row_idx, col) ==
    col < NCols(d) /\ Strip(StrOf(Iloc(d, sub_row_idx, col))) \in param_markers

\* marker = str(self.data.iloc[sub_row_idx, col]).strip(); marker in markers
HasMarker(d, sub_row_idx, col) ==
    col < NCols(d) /\ Strip(StrOf(Iloc(d, sub_row_idx, col))) \in markers

\* the name test shared by get_composants and get_parametres:
\* pd.notna(component), comp_name not in markers, comp_name != ''
IsCompName(cell) ==
    NotNa(cell) /\ Strip(StrOf(cell)) \notin markers /\ Strip(StrOf(cell)) # <<>>

\* "for col in range(0, 74)"; self.data.iloc[15, col] is read without a row check
RECURSIVE CompScan(_, _, _, _)
CompScan(d, sub_row_idx, col, components) ==
    IF col >= CompColEnd THEN Ret(components)
    ELSE IF HasMarker(d, sub_row_idx, col)
         THEN IF defect_row_idx >= NRows(d) THEN Raise
              ELSE LET component == Iloc(d, defect_row_idx, col)
                   IN  CompScan(d, sub_row_idx, col + 1,
                                IF IsCompName(component)
                                THEN Append(components, Strip(StrOf(component)))
                                ELSE components)
         ELSE CompScan(d, sub_row_idx, col + 1, components)

get_composants(d, sous_ensemble_name) ==
    LET found == FindSubRow(d, sous_ensemble_name)
    IN  IF found.raised THEN Raise
        ELSE IF found.val = NoneCol THEN Ret(<<>>)
        ELSE CompScan(d, found.val, 0, <<>>)

(***************************************************************************)
(* get_parametres                                                          *)
(***************************************************************************)
\* component_cols: the columns of range(0, 74) holding a marker in the row
ComponentCols(d, sub_row_idx) ==
    Ascending({col \in 0..(CompColEnd - 1) : HasMarker(d, sub_row_idx, col)})

\* "for col in component_cols": the names linked to one parameter row
RECURSIVE LinkedScan(_, _, _, _, _)
LinkedScan(d, row_idx, component_cols, i, linked_components) ==
    IF i > Len(component_cols) THEN linked_components
    ELSE LET col == component_cols[i]
             cell == Iloc(d, row_idx, col)
             comp_name == Iloc(d, defect_row_idx, col)
         IN  LinkedScan(d, row_idx, component_cols, i + 1,
                IF /\ col < NCols(d)
                   /\ NotNa(cell) /\ Strip(StrOf(cell)) \in param_markers
                   /\ IsCompName(comp_name)
                THEN Append(linked_components, Strip(StrOf(comp_name)))
                ELSE linked_components)

\* param_value = self.data.iloc[row_idx, 76] if 76 < len(self.data.columns) else None
ValueCell(d, row) == IF ValueCol < NCols(d) THEN Iloc(d, row, ValueCol) ELSE NaN

\* one pass of "for row_idx in range(17, len(self.data))"
ParamStep(d, row_idx, component_cols, parameters) ==
    LET param_name == LabelCell(d, row_idx)
        param_value == ValueCell(d, row_idx)
    IN  IF NotNa(param_name)
        THEN LET param_name_str == Strip(StrOf(param_name))
                 param_value_str ==
                     IF NotNa(param_value) THEN Strip(StrOf(param_value)) ELSE <<>>
                 linked_components == LinkedScan(d, row_idx, component_cols, 1, <<>>)
             IN  IF /\ linked_components # <<>>
                    /\ param_name_str \notin markers
                    /\ param_name_str # <<>>
                 THEN Append(parameters, [name |-> param_name_str,
                                          value |-> param_value_str,
                                          components |-> linked_components])
                 ELSE parameters
        ELSE parameters

RECURSIVE ParamScan(_, _, _, _)
ParamScan(d, row_idx, component_cols, parameters) ==
    IF row_idx >= NRows(d) THEN parameters
    ELSE ParamScan(d, row_idx + 1, component_cols,
                   ParamStep(d, row_idx, component_cols, parameters))

get_parametres(d, sous_ensemble_name) ==
    IF sous_ensemble_name = <<>> THEN Ret(<<>>)
    ELSE LET found == FindSubRow(d, sous_ensemble_name)
         IN  IF found.raised THEN Raise
             ELSE IF found.val = NoneCol THEN Ret(<<>>)
             ELSE Ret(ParamScan(d, ParamRowFirst, ComponentCols(d, found.val), <<>>))

(***************************************************************************)
(* analyze_defect                                                          *)
(***************************************************************************)
\* "for se in sous_ensembles": composants.extend(...); parametres.extend(...)
RECURSIVE AnalyzeLoop(_, _, _, _, _)
AnalyzeLoop(d, sous_ensembles, i, composants, parametres) ==
    IF i > Len(sous_ensembles)
    THEN Ret([composants |-> composants, parametres |-> parametres])
    ELSE LET c == get_composants(d, sous_ensembles[i])
         IN  IF c.raised THEN Raise
             ELSE LET p == get_parametres(d, sous_ensembles[i])
                  IN  IF p.raised THEN Raise
                      ELSE AnalyzeLoop(d, sous_ensembles, i + 1,
                                       composants \o c.val, parametres \o p.val)

\* The result is a dict: the not-found result has the key 'error', the
\* normal one has not.
analyze_defect(d, defect_name) ==
    LET defect_col == find_defect_column(d, defect_name)
    IN  IF defect_col = NoneCol
        THEN Ret([error |-> "introuvable", defect_name |-> defect_name])
        ELSE LET se == get_sous_ensembles(d, defect_col)
             IN  IF se.raised THEN Raise
                 ELSE LET both == AnalyzeLoop(d, se.val, 1, <<>>, <<>>)
                      IN  IF both.raised THEN Raise
                          ELSE Ret([defect_name |-> defect_name,
                                    defect_column |-> defect_col,
                                    sous_ensembles |-> se.val,
                                    composants |-> Dedup(both.val.composants, <<>>),
                                    parametres |-> both.val.parametres])

(***************************************************************************)
(* Colour source: _get_xlrd_objects, get_cell_color                        *)
(*                                                                         *)
(* excel_file is the uploaded file object: its format (kind), its read     *)
(* position (pos: 0 at the start, 1 at the end) and the background colour  *)
(* index its formatting records give each cell (colours).  xlrd_book is    *)
(* "None" until a workbook was opened with formatting_info=True.           *)
(***************************************************************************)
\* xlrd.open_workbook(file_contents=self.excel_file.read(), formatting_info=True)
\* succeeds on the whole contents of a legacy .xls file; an .xlsx file, or the
\* empty contents read() gives at the end of the file, raise.
OpensWorkbook(file) == file.kind = "xls" /\ file.pos = 0

\* a workbook that is opened but neither kept nor followed by a rewind
XlrdAfterUncached(book, file) ==
    [book |-> "None", file |-> [file EXCEPT !.pos = 1], ok |-> OpensWorkbook(file)]

\* the analyzer's colour state after one call of _get_xlrd_objects: the
\* read() leaves the position at the end, and seek(0) runs only on success
XlrdAfter(book, file) ==
    IF book = "None"
    THEN IF OpensWorkbook(file)
         THEN [book |-> "Book", file |-> [file EXCEPT !.pos = 0], ok |-> TRUE]
         ELSE [book |-> "None", file |-> [file EXCEPT !.pos = 1], ok |-> FALSE]
    ELSE [book |-> book, file |-> file, ok |-> TRUE]

\* xf.background.pattern_colour_index of a cell of the sheet
ColourAt(file, r, c) ==
    IF <<r, c>> \in DOMAIN file.colours THEN file.colours[<<r, c>>] ELSE 64

\* "for r in range(3, 15)" on the sheet: sheet.cell(r, 75) raises outside
\* the sheet, which the method's except clause turns into (None, "Error")
RECURSIVE ColourRowScan(_, _, _)
ColourRowScan(d, row_name, r) ==
    IF r >= SubRowEnd THEN Ret(NoneCol)
    ELSE IF ~InGrid(d, r, LabelCol) THEN Raise
         ELSE LET cell == Iloc(d, r, LabelCol)
              IN  IF NotNa(cell) /\ Strip(cell) = row_name THEN Ret(r)
                  ELSE ColourRowScan(d, row_name, r + 1)

\* get_cell_color(row_name, col_idx)[0], given whether the workbook is there
CellColour(ok, file, d, row_name, col_idx) ==
    IF ~ok THEN NoneCol
    ELSE LET found == ColourRowScan(d, row_name, SubRowFirst)
         IN  IF found.raised THEN NoneCol
             ELSE IF found.val = NoneCol THEN NoneCol
             ELSE IF ~InGrid(d, found.val, col_idx) THEN NoneCol
             ELSE ColourAt(file, found.val, col_idx)

get_cell_color(book, file, d, row_name, col_idx) ==
    CellColour(XlrdAfter(book, file).ok, XlrdAfter(book, file).file,
               d, row_name, col_idx)

\* get_component_color delegates to get_cell_color
get_component_color(book, file, d, row_name, col_idx) ==
    get_cell_color(book, file, d, row_name, col_idx)

(***************************************************************************)
(* get_filtered_hierarchy                                                  *)
(***************************************************************************)
\* an equality under which an unknown colour (None) equals nothing
ColourEqKnown(comp_color_idx, color_idx) ==
    comp_color_idx # NoneCol /\ comp_color_idx = color_idx

\* "if comp_color_idx == color_idx": Python equality, also of None with None
ColourEq(comp_color_idx, color_idx) == comp_color_idx = color_idx

\* only the first of the columns whose row-15 text is the name
CompColsFirst(d, comp_name) ==
    LET cols == {col \in 0..(CompColEnd - 1) :
                    /\ NotNa(Iloc(d, defect_row_idx, col))
                    /\ Strip(StrOf(Iloc(d, defect_row_idx, col))) = comp_name}
    IN  IF cols = {} THEN <<>> ELSE <<Min(cols)>>

\* comp_cols: the columns of range(0, 74) whose row-15 text is the name
CompCols(d, comp_name) ==
    Ascending({col \in 0..(CompColEnd - 1) :
                 /\ NotNa(Iloc(d, defect_row_idx, col))
                 /\ Strip(StrOf(Iloc(d, defect_row_idx, col))) = comp_name})

\* "for comp_col in comp_cols": one append per column of matching colour
RECURSIVE BonnesCols(_, _, _, _, _, _, _, _)
BonnesCols(book, file, d, se, color_idx, comp, comp_cols, bonnes) ==
    IF comp_cols = <<>> THEN bonnes
    ELSE BonnesCols(book, file, d, se, color_idx, comp, Tail(comp_cols),
            IF ColourEq(get_component_color(book, file, d, se, Head(comp_cols)),
                        color_idx)
            THEN Append(bonnes, comp) ELSE bonnes)

\* "for comp in result['composants']"
RECURSIVE BonnesComps(_, _, _, _, _, _, _)
BonnesComps(book, file, d, se, color_idx, composants, bonnes) ==
    IF composants = <<>> THEN bonnes
    ELSE BonnesComps(book, file, d, se, color_idx, Tail(composants),
            BonnesCols(book, file, d, se, color_idx, Head(composants),
                       CompCols(d, Strip(Head(composants))), bonnes))

\* "for se in sous_ensembles": color_cache[se] is the colour at the defect column
RECURSIVE BonnesLoop(_, _, _, _, _, _, _)
BonnesLoop(book, file, d, defect_col, sous_ensembles, composants, bonnes) ==
    IF sous_ensembles = <<>> THEN bonnes
    ELSE BonnesLoop(book, file, d, defect_col, Tail(sous_ensembles), composants,
            BonnesComps(book, file, d, Head(sous_ensembles),
                        get_cell_color(book, file, d, Head(sous_ensembles), defect_col),
                        composants, bonnes))

\* the whole list of a parameter that has a validated component
LinkedInGoodWhole(components, bons) ==
    IF \E i \in 1..Len(components) : InSeq(components[i], bons)
    THEN components ELSE <<>>

\* linked_in_good = [c for c in param['components'] if c in bons_comp_set]
LinkedInGood(components, bons) == SelectSeq(components, LAMBDA c : InSeq(c, bons))

\* "for param in result['parametres']"
RECURSIVE ParametresFiltres(_, _, _)
ParametresFiltres(parametres, bons, acc) ==
    IF parametres = <<>> THEN acc
    ELSE LET param == Head(parametres)
             linked_in_good == LinkedInGood(param.components, bons)
         IN  ParametresFiltres(Tail(parametres), bons,
                IF linked_in_good # <<>>
                THEN Append(acc, [name |-> param.name, value |-> param.value,
                                  components |-> linked_in_good])
                ELSE acc)

\* self.data.iloc[15, col] for col in range(0, 74) is read with no bounds
\* check, once per sub-assembly and component
FilterRaises(d, result) ==
    /\ result.sous_ensembles # <<>>
    /\ result.composants # <<>>
    /\ ~InGrid(d, defect_row_idx, CompColEnd - 1)

get_filtered_hierarchy(book, file, d, defect_name) ==
    LET analysed == analyze_defect(d, defect_name)
    IN  IF analysed.raised THEN Raise
        ELSE LET result == analysed.val
             IN  IF "error" \in DOMAIN result
                 THEN Ret([defect_name |-> defect_name,
                           defect_column |-> NoneCol,
                           sous_ensembles |-> <<>>,
                           bonnes_composants |-> <<>>,
                           parametres |-> <<>>])
                 ELSE IF FilterRaises(d, result) THEN Raise
                 ELSE LET bonnes ==
                              BonnesLoop(book, file, d, result.defect_column,
                                         result.sous_ensembles, result.composants, <<>>)
                          uniques == Dedup(bonnes, <<>>)
                      IN  Ret([defect_name |-> defect_name,
                               defect_column |-> result.defect_column,
                               sous_ensembles |-> result.sous_ensembles,
                               bonnes_composants |-> uniques,
                               parametres |->
                                   ParametresFiltres(result.parametres, uniques, <<>>)])

\* whether a call of get_filtered_hierarchy reaches get_cell_color at all
FilterReadsColours(d, defect_name) ==
    LET analysed == analyze_defect(d, defect_name)
    IN  /\ ~analysed.raised
        /\ "error" \notin DOMAIN analysed.val
        /\ analysed.val.sous_ensembles # <<>>

(***************************************************************************)
(* Inputs                                                                  *)
(***************************************************************************)
\* longest defect name searched for
MaxNameLen == 2
\* row and column count of the full-size grids
MaxRows == 19
MaxCols == 81
\* number of distinct background colours of the formatting records
NumColours == 2

\* characters of a searched defect name
QueryChars == {"a", "B", "."}

RECURSIVE StringsUpTo(_, _)
StringsUpTo(chars, n) ==
    IF n = 0 THEN {<<>>}
    ELSE LET shorter == StringsUpTo(chars, n - 1)
         IN  shorter \cup {Append(s, ch) : s \in shorter, ch \in chars}

\* defect names searched for / picked from the list
DefectNames == StringsUpTo(QueryChars, MaxNameLen) \ {<<>>}
PickedNames == {<<"a">>, <<"B">>, <<"z">>}

\* sub-assembly names asked for
SubNames == {<<>>, <<"H">>, <<"F">>, <<"G">>}

\* defect columns asked for
DefectCols == {10, 78, 80, MaxCols}

\* a grid from its dimensions and a choice of text per position; a choice
\* of NaN, or a position outside the grid, leaves no cell
Grid(nrows, ncols, f) ==
    [nrows |-> nrows, ncols |-> ncols,
     cells |-> [p \in {q \in DOMAIN f : f[q] # NaN /\ q[1] < nrows /\ q[2] < ncols}
                   |-> f[p]]]

\* all functions from the positions of `slots` to their candidate values
RECURSIVE FillsOf(_, _)
FillsOf(slots, ps) ==
    IF ps = {} THEN {<<>>}
    ELSE LET p == CHOOSE q \in ps : TRUE
         IN  {(p :> v) @@ g : g \in FillsOf(slots, ps \ {p}), v \in slots[p]}

Fills(slots) == FillsOf(slots, DOMAIN slots)

\* Defect row: a component name, a spare cell, two defect names
LocateSlots ==
    (<<15, 10>> :> {NaN, <<"a">>, <<"A", "b">>}) @@
    (<<15, 77>> :> {NaN, <<"b">>}) @@
    (<<15, 78>> :> {NaN, <<" ">>, <<"A", "b">>, <<" ", "b", " ">>}) @@
    (<<15, 80>> :> {NaN, <<"a">>, <<" ">>, <<"b", "a">>})

LocateGrids ==
    {Grid(nr, nc, f) : nr \in {15, MaxRows}, nc \in {79, MaxCols},
                       f \in Fills(LocateSlots)}

\* Sub-assembly rows of defect column 80: markers in rows 2, 5, 13, 14 and
\* the labels of rows 5, 13, 14
SubSlots ==
    (<<15, 80>> :> {<<"a">>}) @@
    (<<2, 80>> :> {<<"ç">>}) @@ (<<2, 75>> :> {<<"G">>}) @@
    (<<5, 80>> :> {<<"ç">>, <<"è">>}) @@
    (<<13, 80>> :> {NaN, <<" ", "ç">>}) @@
    (<<14, 80>> :> {NaN, <<"ç">>}) @@
    (<<5, 75>> :> {NaN, <<"H">>, <<" ">>}) @@
    (<<13, 75>> :> {NaN, <<" ", "F">>, <<" ">>, <<"H">>}) @@
    (<<14, 75>> :> {<<"H">>, <<"G">>})

SubGrids ==
    {Grid(nr, MaxCols, f) : nr \in {13, MaxRows}, f \in Fills(SubSlots)}

\* Component columns 10, 40 and 73 of sub-assembly H (row 5); column 74 is
\* outside the component range
CompSlots ==
    (<<5, 75>> :> {<<"H">>}) @@ (<<15, 80>> :> {<<"a">>}) @@ (<<5, 80>> :> {<<"ç">>}) @@
    (<<5, 10>> :> {NaN, <<"ê">>, <<" ", "è">>, <<"ç">>}) @@
    (<<5, 40>> :> {NaN, <<"ª">>, <<"a">>}) @@
    (<<5, 73>> :> {<<"ê">>}) @@
    (<<5, 74>> :> {NaN, <<"ê">>}) @@
    (<<15, 10>> :> {NaN, <<" ", "a", " ">>, <<"ç">>, <<" ">>}) @@
    (<<15, 40>> :> {<<"a">>, <<"b">>}) @@
    (<<15, 73>> :> {NaN, <<"b">>}) @@
    (<<15, 74>> :> {<<"c">>})

CompGrids == {Grid(MaxRows, MaxCols, f) : f \in Fills(CompSlots)}

\* Parameter rows 17 and 18 of sub-assembly H, components in columns 10, 40
ParamSlots ==
    (<<5, 75>> :> {<<"H">>, <<" ">>}) @@ (<<15, 80>> :> {<<"a">>}) @@ (<<5, 80>> :> {<<"ç">>}) @@
    (<<5, 10>> :> {<<"ç">>}) @@
    (<<5, 40>> :> {NaN, <<"ª">>}) @@
    (<<15, 10>> :> {<<" ", "a", " ">>, <<"è">>}) @@
    (<<15, 40>> :> {<<"b">>}) @@
    (<<16, 75>> :> {<<"R">>}) @@ (<<16, 10>> :> {<<"è">>}) @@
    (<<17, 75>> :> {NaN, <<"P">>, <<"è">>, <<" ">>}) @@
    (<<17, 76>> :> {<<" ", "v">>}) @@
    (<<17, 10>> :> {NaN, <<"è">>, <<"ç">>}) @@
    (<<17, 40>> :> {NaN, <<" ", "ê">>}) @@
    (<<18, 75>> :> {<<"Q">>}) @@
    (<<18, 40>> :> {<<"è">>, <<"ª">>})

ParamGrids == {Grid(MaxRows, MaxCols, f) : f \in Fills(ParamSlots)}

\* Grids smaller than the fixed layout
ShortFill ==
    (<<2, 10>> :> <<"ê">>) @@ (<<2, 75>> :> <<"G">>) @@
    (<<5, 75>> :> <<"H">>) @@ (<<5, 10>> :> <<"ê">>) @@ (<<5, 80>> :> <<"ç">>) @@
    (<<15, 10>> :> <<"a">>) @@ (<<15, 80>> :> <<"a">>) @@
    (<<17, 75>> :> <<"P">>) @@ (<<17, 10>> :> <<"è">>)

ShortGrids ==
    {Grid(nr, nc, ShortFill) : nr \in {3, 10, 15, 16, MaxRows},
                               nc \in {10, 75, 76, MaxCols}}

\* Defect "a" in column 80 with sub-assemblies H (row 5) and G (row 7);
\* components "b" (columns 10 and maybe 40) and "c" (column 41, maybe 40);
\* parameters P and Q
ColourGridSlots ==
    (<<15, 80>> :> {<<"a">>}) @@
    (<<5, 80>> :> {<<"ç">>}) @@ (<<5, 75>> :> {<<"H">>}) @@
    (<<7, 80>> :> {NaN, <<"ç">>}) @@ (<<7, 75>> :> {<<"G">>}) @@
    (<<5, 10>> :> {<<"ê">>}) @@
    (<<5, 40>> :> {NaN, <<"è">>}) @@
    (<<7, 10>> :> {NaN, <<"ê">>}) @@
    (<<7, 41>> :> {<<"ª">>}) @@
    (<<15, 10>> :> {<<"b">>}) @@
    (<<15, 40>> :> {<<"b">>, <<"c">>}) @@
    (<<15, 41>> :> {<<"c">>}) @@
    (<<17, 75>> :> {<<"P">>}) @@ (<<17, 10>> :> {<<"è">>}) @@
    (<<17, 40>> :> {<<"ê">>}) @@
    (<<18, 75>> :> {<<"Q">>}) @@ (<<18, 41>> :> {<<"è">>})

ColourGrids == {Grid(MaxRows, MaxCols, f) : f \in Fills(ColourGridSlots)}

\* background colour indexes of the cells of rows 5 and 7
ColourSlots ==
    (<<5, 80>> :> {1}) @@ (<<7, 80>> :> {2}) @@
    (<<5, 10>> :> 1..NumColours) @@
    (<<5, 40>> :> 1..NumColours) @@
    (<<5, 41>> :> 1..NumColours) @@
    (<<7, 10>> :> 1..NumColours) @@
    (<<7, 41>> :> {1})

\* a file without formatting records (.xlsx) and the files with them (.xls)
NoColours == [kind |-> "xlsx", pos |-> 0, colours |-> <<>>]
XlsFiles == {[kind |-> "xls", pos |-> 0, colours |-> f] : f \in Fills(ColourSlots)}

\* Sub-assemblies H, F, G of rows 3, 13 and 14 (the first and the last two
\* rows of the marker scan), each with one component column, and a parameter
\* row linked to the component of G
RowSlots ==
    (<<15, 80>> :> {<<"a">>}) @@
    (<<3, 75>> :> {<<"H">>}) @@ (<<13, 75>> :> {<<"F">>}) @@ (<<14, 75>> :> {<<"G">>}) @@
    (<<3, 80>> :> {NaN, <<"ç">>}) @@
    (<<13, 80>> :> {NaN, <<"ç">>}) @@
    (<<14, 80>> :> {NaN, <<"ç">>}) @@
    (<<3, 10>> :> {NaN, <<"ê">>}) @@
    (<<13, 40>> :> {NaN, <<"è">>}) @@
    (<<14, 41>> :> {NaN, <<"ª">>}) @@
    (<<15, 10>> :> {<<"b">>}) @@ (<<15, 40>> :> {<<"c">>}) @@ (<<15, 41>> :> {<<"d">>}) @@
    (<<17, 75>> :> {<<"P">>}) @@ (<<17, 41>> :> {<<"è">>})

RowGrids == {Grid(MaxRows, MaxCols, f) : f \in Fills(RowSlots)}

(***************************************************************************)
(* State machine                                                           *)
(***************************************************************************)
\* `again' is history: the call repeats the call just before it (set by
\* GetFilteredHierarchy only)
Call(op, name, col, res) ==
    [op |-> op, name |-> name, col |-> col, res |-> res, again |-> FALSE]

NoCall == Call("none", <<>>, NoneCol, Ret(<<>>))

\* the analyzer as main() builds it: file uploaded and rewound, grid loaded,
\* no workbook opened yet
InitWith(grids, files) ==
    /\ data \in grids
    /\ excel_file \in files
    /\ xlrd_book = "None"
    /\ last = NoCall

FindDefectColumn ==
    \E name \in DefectNames :
        /\ last' = Call("find_defect_column", name, NoneCol,
                        Ret(find_defect_column(data, name)))
        /\ UNCHANGED <<data, excel_file, xlrd_book>>

ListAllDefects ==
    /\ last' = Call("list_all_defects", <<>>, NoneCol, Ret(list_all_defects(data)))
    /\ UNCHANGED <<data, excel_file, xlrd_book>>

GetSousEnsembles ==
    \E col \in DefectCols :
        /\ last' = Call("get_sous_ensembles", <<>>, col, get_sous_ensembles(data, col))
        /\ UNCHANGED <<data, excel_file, xlrd_book>>

GetComposants ==
    \E name \in SubNames :
        /\ last' = Call("get_composants", name, NoneCol, get_composants(data, name))
        /\ UNCHANGED <<data, excel_file, xlrd_book>>

GetParametres ==
    \E name \in SubNames :
        /\ last' = Call("get_parametres", name, NoneCol, get_parametres(data, name))
        /\ UNCHANGED <<data, excel_file, xlrd_book>>

AnalyzeDefect(names) ==
    \E name \in names :
        /\ last' = Call("analyze_defect", name, NoneCol, analyze_defect(data, name))
        /\ UNCHANGED <<data, excel_file, xlrd_book>>

GetCellColor ==
    \E name \in {<<"H">>, <<"F">>}, col \in {10, MaxCols} :
        /\ last' = Call("get_cell_color", name, col,
                        Ret(get_cell_color(xlrd_book, excel_file, data, name, col)))
        /\ xlrd_book' = XlrdAfter(xlrd_book, excel_file).book
        /\ excel_file' = XlrdAfter(xlrd_book, excel_file).file
        /\ UNCHANGED data

GetFilteredHierarchy(names) ==
    \E name \in names :
        /\ last' = [Call("get_filtered_hierarchy", name, NoneCol,
                         get_filtered_hierarchy(xlrd_book, excel_file, data, name))
                        EXCEPT !.again = last.op = "get_filtered_hierarchy"
                                         /\ last.name = name]
        /\ IF FilterReadsColours(data, name)
           THEN /\ xlrd_book' = XlrdAfter(xlrd_book, excel_file).book
                /\ excel_file' = XlrdAfter(xlrd_book, excel_file).file
           ELSE UNCHANGED <<xlrd_book, excel_file>>
        /\ UNCHANGED data

\* The defect row: locating and listing defects, and the two public entry
\* points with every searched name
InitLocate == InitWith(LocateGrids, {NoColours})

NextLocate ==
    \/ FindDefectColumn
    \/ ListAllDefects
    \/ AnalyzeDefect(DefectNames)
    \/ GetFilteredHierarchy(DefectNames)

SpecLocate == InitLocate /\ [][NextLocate]_vars

\* The colour filter: the two public entry points on a defect picked from
\* the list, with and without formatting records in the file
InitColour == InitWith(ColourGrids, XlsFiles \cup {NoColours})

NextColour ==
    \/ AnalyzeDefect(PickedNames)
    \/ GetFilteredHierarchy(PickedNames)
    \/ GetCellColor

SpecColour == InitColour /\ [][NextColour]_vars

\* The resolvers called one by one, on full-size and on short grids
InitResolve ==
    InitWith(SubGrids \cup CompGrids \cup ParamGrids \cup ShortGrids, {NoColours})

NextResolve ==
    \/ FindDefectColumn
    \/ ListAllDefects
    \/ GetSousEnsembles
    \/ GetComposants
    \/ GetParametres

SpecResolve == InitResolve /\ [][NextResolve]_vars

\* One analysis next to the resolvers it calls, on sub-assemblies of the
\* first and the last rows of the marker scan
InitRows == InitWith(RowGrids, {NoColours})

NextRows ==
    \/ AnalyzeDefect(PickedNames)
    \/ GetSousEnsembles
    \/ GetComposants
    \/ GetParametres

SpecRows == InitRows /\ [][NextRows]_vars

(***************************************************************************)
(* Vocabulary of the properties, stated without the operators above        *)
(***************************************************************************)
\* the same letter, whatever the case
SameLetter(x, y) ==
    \/ x = y
    \/ {x, y} = {"a", "A"}
    \/ {x, y} = {"b", "B"}

\* t occurs in s, case ignored
ContainsNoCase(s, t) ==
    \E i \in 0..(Len(s) - Len(t)) : \A j \in 1..Len(t) : SameLetter(s[i + j], t[j])

Blank(s) == \A k \in 1..Len(s) : s[k] = " "

\* t is s without its leading and trailing blanks
IsTrimOf(t, s) ==
    \E i \in 0..Len(s) :
        /\ i + Len(t) <= Len(s)
        /\ \A k \in 1..i : s[k] = " "
        /\ \A k \in 1..Len(t) : s[i + k] = t[k]
        /\ \A k \in (i + Len(t) + 1)..Len(s) : s[k] = " "
        /\ t # <<>> => (t[1] # " " /\ t[Len(t)] # " ")

\* the cell is inside the grid and holds a text
Present(d, r, c) == r < d.nrows /\ c < d.ncols /\ <<r, c>> \in DOMAIN d.cells

\* the cell holds a text that is not blank
Filled(d, r, c) == Present(d, r, c) /\ ~Blank(d.cells[<<r, c>>])

\* the cell's text, trimmed, is t
HoldsTrimmed(d, r, c, t) == Present(d, r, c) /\ IsTrimOf(t, d.cells[<<r, c>>])

\* the columns of the defect row whose text contains the name, case ignored
ColsContaining(d, name) ==
    {c \in 0..(d.ncols - 1) :
        Present(d, 15, c) /\ ContainsNoCase(d.cells[<<15, c>>], name)}

Returned(op) == last.op = op /\ ~last.res.raised

(***************************************************************************)
(* C1  find_defect_column scans row 15 from column 78 onward only: it      *)
(* returns the lowest column >= 78 whose cell contains the name (case      *)
(* ignored), never a column below 78, and None when no column >= 78        *)
(* matches.                                                                *)
(***************************************************************************)
C1_LocateFromMinColumn ==
    Returned("find_defect_column") =>
        LET from78 == {c \in ColsContaining(data, last.name) : c >= 78}
        IN  /\ from78 = {} => last.res.val = NoneCol
            /\ from78 # {} =>
                   /\ last.res.val \in from78
                   /\ \A c \in from78 : last.res.val <= c

(***************************************************************************)
(* C3  A defect name that no cell of the defect row contains (case         *)
(* ignored, as a substring) is not found: find_defect_column returns None, *)
(* analyze_defect returns an error-tagged result without raising, and      *)
(* get_filtered_hierarchy returns, without raising, a result with no       *)
(* column and empty lists.                                                 *)
(***************************************************************************)
C3_AbsentNameNotFound ==
    ColsContaining(data, last.name) = {} =>
        /\ last.op = "find_defect_column" =>
               ~last.res.raised /\ last.res.val = NoneCol
        /\ last.op = "analyze_defect" =>
               ~last.res.raised /\ "error" \in DOMAIN last.res.val
        /\ last.op = "get_filtered_hierarchy" =>
               /\ ~last.res.raised
               /\ last.res.val.defect_column = NoneCol
               /\ last.res.val.sous_ensembles = <<>>
               /\ last.res.val.bonnes_composants = <<>>
               /\ last.res.val.parametres = <<>>

(***************************************************************************)
(* C7  list_all_defects returns exactly the cells of row 15 in columns     *)
(* >= 78 that hold a text that is not blank, as <<column, trimmed text>>   *)
(* in strictly increasing column order; no name is empty or blank and no   *)
(* column below 78 appears.                                                *)
(***************************************************************************)
C7_ListAllExact ==
    Returned("list_all_defects") =>
        LET r == last.res.val
        IN  /\ \A i \in 1..Len(r) :
                   /\ r[i][1] >= 78
                   /\ Filled(data, 15, r[i][1])
                   /\ HoldsTrimmed(data, 15, r[i][1], r[i][2])
                   /\ r[i][2] # <<>> /\ ~Blank(r[i][2])
            /\ \A i, j \in 1..Len(r) : i < j => r[i][1] < r[j][1]
            /\ \A c \in 78..(data.ncols - 1) :
                   Filled(data, 15, c) => \E i \in 1..Len(r) : r[i][1] = c

\* a list of one defect whose cell is padded, beside a blank cell at or
\* after column 78 and a name below column 78
C7_Witness ==
    /\ Returned("list_all_defects")
    /\ Len(last.res.val) = 1
    /\ \E c \in 78..(data.ncols - 1) : Present(data, 15, c) /\ Blank(data.cells[<<15, c>>])
    /\ \E c \in 0..77 : Filled(data, 15, c)
    /\ \E c \in 78..(data.ncols - 1) :
           Filled(data, 15, c) /\ data.cells[<<15, c>>] # last.res.val[1][2]

(***************************************************************************)
(* Vocabulary of the resolvers' properties                                 *)
(***************************************************************************)
\* the cell holds, blanks aside, one of the given texts
HoldsOneOf(d, r, c, texts) == \E t \in texts : HoldsTrimmed(d, r, c, t)

\* the cell holds a name: a text that is neither blank nor a marker
HoldsName(d, r, c) ==
    Filled(d, r, c) /\ ~HoldsOneOf(d, r, c, {<<"ê">>, <<"è">>, <<"ç">>, <<"ª">>})

NoDuplicates(s) == \A i, j \in 1..Len(s) : s[i] = s[j] => i = j

\* the rows 3-14 that hold the marker 'ç' at the column and a label
MarkedRows(d, col) ==
    {r \in 3..14 : HoldsTrimmed(d, r, col, <<"ç">>) /\ Filled(d, r, 75)}

\* the first of the rows 3-13 labelled with the name, 0 when there is none
RowsLabelled(d, name) == {r \in 3..13 : HoldsTrimmed(d, r, 75, name)}
RowOf(d, name) ==
    IF RowsLabelled(d, name) = {} THEN 0
    ELSE CHOOSE r \in RowsLabelled(d, name) : \A q \in RowsLabelled(d, name) : r <= q

\* the columns 0-73 holding one of the four markers in the row
MarkerCols(d, row) ==
    {c \in 0..73 : HoldsOneOf(d, row, c, {<<"ê">>, <<"è">>, <<"ç">>, <<"ª">>})}

\* s lists, in increasing order of the members of S, one item per member,
\* each item related to its member by Item(member, item)
ListsInOrder(s, S, Item(_, _)) ==
    /\ Len(s) = Cardinality(S)
    /\ \A x \in S : Item(x, s[Cardinality({y \in S : y < x}) + 1])

(***************************************************************************)
(* C4  The resolvers are total: on any grid, also one with fewer than 16   *)
(* rows or fewer than 77 columns, find_defect_column, list_all_defects,    *)
(* get_sous_ensembles, get_composants and get_parametres return a result   *)
(* and never fault on a row or column outside the grid.                    *)
(***************************************************************************)
C4_ResolversTotal ==
    last.op \in {"find_defect_column", "list_all_defects", "get_sous_ensembles",
                 "get_composants", "get_parametres"}
        => ~last.res.raised

(***************************************************************************)
(* C5  The list get_sous_ensembles returns has no duplicate names, and     *)
(* when some row of 3-14 holds 'ç' at the defect column and a label in     *)
(* column 75, the list is those rows' labels in increasing row order, the  *)
(* first occurrence of each name kept.                                     *)
(***************************************************************************)
C5_SousEnsemblesUniqueInRowOrder ==
    Returned("get_sous_ensembles") =>
        LET r == last.res.val
            rows == MarkedRows(data, last.col)
            FirstRow(name) ==
                CHOOSE q \in rows :
                    /\ HoldsTrimmed(data, q, 75, name)
                    /\ \A p \in rows : HoldsTrimmed(data, p, 75, name) => q <= p
        IN  /\ NoDuplicates(r)
            /\ rows # {} =>
                   /\ \A i \in 1..Len(r) : \E q \in rows : HoldsTrimmed(data, q, 75, r[i])
                   /\ \A q \in rows : \E i \in 1..Len(r) : HoldsTrimmed(data, q, 75, r[i])
                   /\ \A i, j \in 1..Len(r) : i < j => FirstRow(r[i]) < FirstRow(r[j])

\* two names, one of them the label of two marked rows
C5_Witness ==
    /\ Returned("get_sous_ensembles")
    /\ Len(last.res.val) = 2
    /\ \E p, q \in MarkedRows(data, last.col) :
           p < q /\ HoldsTrimmed(data, p, 75, last.res.val[1])
                 /\ HoldsTrimmed(data, q, 75, last.res.val[1])
    /\ \E p \in MarkedRows(data, last.col) : data.cells[<<p, 75>>] # last.res.val[2]
                                               /\ HoldsTrimmed(data, p, 75, last.res.val[2])

(***************************************************************************)
(* C6  The fallback of get_sous_ensembles is a last resort: when the scan  *)
(* of rows 3-14 yields no name, the result is the single trimmed label of  *)
(* cell (13,75) if that label is not empty, and the empty list otherwise   *)
(* (an absent or blank label gives no element); when the scan yields a     *)
(* name, only the scanned names are returned.                              *)
(***************************************************************************)
C6_FallbackLastResort ==
    Returned("get_sous_ensembles") =>
        LET r == last.res.val
            rows == MarkedRows(data, last.col)
        IN  /\ rows = {} =>
                   IF Filled(data, 13, 75)
                   THEN Len(r) = 1 /\ HoldsTrimmed(data, 13, 75, r[1])
                   ELSE r = <<>>
            /\ rows # {} =>
                   \A i \in 1..Len(r) : \E q \in rows : HoldsTrimmed(data, q, 75, r[i])

(***************************************************************************)
(* C8  For a name labelling a row of 3-13 in column 75, get_composants     *)
(* returns, in increasing column order, one entry per column of 0-73 whose *)
(* cell in that row is one of the four markers and whose row-15 cell holds *)
(* a name (not empty, not a marker); duplicates stay; a row without marker *)
(* cells, or a name labelling no row, gives the empty sequence.            *)
(***************************************************************************)
C8_ComposantsPerMarkerColumn ==
    Returned("get_composants") =>
        LET row == RowOf(data, last.name)
            cols == {c \in MarkerCols(data, row) : HoldsName(data, 15, c)}
            Named(c, item) == HoldsTrimmed(data, 15, c, item)
        IN  IF row = 0 THEN last.res.val = <<>>
            ELSE ListsInOrder(last.res.val, cols, Named)

\* the same name twice, from two columns, beside a marker column whose
\* row-15 cell is no name and a marker in column 74
C8_Witness ==
    /\ Returned("get_composants")
    /\ Len(last.res.val) >= 2
    /\ last.res.val[1] = last.res.val[2]
    /\ \E c \in MarkerCols(data, RowOf(data, last.name)) : ~HoldsName(data, 15, c)
    /\ HoldsOneOf(data, RowOf(data, last.name), 74, {<<"ê">>})

(***************************************************************************)
(* C9  get_parametres emits at most one parameter per row >= 17, in        *)
(* increasing row order: one for a row exactly when its name cell (column  *)
(* 75) is not empty and some marker column of the sub-assembly (any of the *)
(* four markers, columns 0-73) holds exactly 'è' or 'ê' in that row and a  *)
(* name in row 15; its components are those names in column order.         *)
(***************************************************************************)
\* the marker columns of the sub-assembly linked to the parameter row
LinkedCols(d, name, prow) ==
    {c \in MarkerCols(d, RowOf(d, name)) :
        HoldsOneOf(d, prow, c, {<<"è">>, <<"ê">>}) /\ HoldsName(d, 15, c)}

\* the result lists one parameter per row of `rows`, with the row's name
\* and its linked names in column order
ListsParameters(d, name, result, rows) ==
    LET Named(c, item) == HoldsTrimmed(d, 15, c, item)
        Emitted(prow, param) ==
            /\ HoldsTrimmed(d, prow, 75, param.name)
            /\ ListsInOrder(param.components, LinkedCols(d, name, prow), Named)
    IN  ListsInOrder(result, rows, Emitted)

C9_ParametresPerLinkedRow ==
    (Returned("get_parametres") /\ last.name # <<>>) =>
        IF RowOf(data, last.name) = 0 THEN last.res.val = <<>>
        ELSE ListsParameters(data, last.name, last.res.val,
                 {prow \in 17..(data.nrows - 1) :
                     Filled(data, prow, 75) /\ LinkedCols(data, last.name, prow) # {}})

\* C9 as the code has it: a row is emitted only if its name is, besides
\* not empty, not one of the markers; the empty sub-assembly name gives the
\* empty list
C9_ParametresPerLinkedNamedRow ==
    Returned("get_parametres") =>
        IF RowOf(data, last.name) = 0 \/ last.name = <<>> THEN last.res.val = <<>>
        ELSE ListsParameters(data, last.name, last.res.val,
                 {prow \in 17..(data.nrows - 1) :
                     HoldsName(data, prow, 75) /\ LinkedCols(data, last.name, prow) # {}})

\* a parameter is emitted for one row while another row, linked as well,
\* is named by a marker and emits nothing
C9_Witness ==
    /\ Returned("get_parametres")
    /\ Len(last.res.val) = 1
    /\ \E prow \in 17..(data.nrows - 1) :
           /\ Filled(data, prow, 75) /\ ~HoldsName(data, prow, 75)
           /\ LinkedCols(data, last.name, prow) # {}
    /\ \E prow \in 17..(data.nrows - 1), c \in MarkerCols(data, RowOf(data, last.name)) :
           HoldsOneOf(data, prow, c, {<<"ç">>, <<"ª">>})

(***************************************************************************)
(* Vocabulary of the colour filter's properties                            *)
(***************************************************************************)
\* no workbook is open and none can be opened: every colour is unknown
ColourSourceDown ==
    xlrd_book = "None" /\ (excel_file.kind = "xlsx" \/ excel_file.pos = 1)

\* the workbook is open: colours are read from the formatting records
ColourSourceUp == xlrd_book = "Book"

\* the unfiltered hierarchy of the defect last asked for
Unfiltered == analyze_defect(data, last.name).val

\* the background colour of the cell in the row labelled with the name
ColourOf(name, c) ==
    LET rows == {r \in 3..14 : HoldsTrimmed(data, r, 75, name)}
        row == CHOOSE r \in rows : \A q \in rows : r <= q
    IN  IF <<row, c>> \in DOMAIN excel_file.colours
        THEN excel_file.colours[<<row, c>>] ELSE 64

\* a column named comp has, in the row of sub-assembly S, the colour that
\* the row has at the defect column
MatchesIn(S, comp, defect_col) ==
    \E c \in 0..73 :
        HoldsTrimmed(data, 15, c, comp) /\ ColourOf(S, c) = ColourOf(S, defect_col)

Index(x, s) == CHOOSE i \in 1..Len(s) : s[i] = x

C10_ValidatedIffColourMatches ==
    (/\ Returned("get_filtered_hierarchy") /\ ColourSourceUp
     /\ "error" \notin DOMAIN Unfiltered) =>
        LET r == last.res.val
            bonnes == r.bonnes_composants
            comps == Unfiltered.composants
            Validated(comp) ==
                \E i \in 1..Len(r.sous_ensembles) :
                    MatchesIn(r.sous_ensembles[i], comp, r.defect_column)
            \* the first sub-assembly that validates the component
            FirstS(comp) ==
                CHOOSE i \in 1..Len(r.sous_ensembles) :
                    /\ MatchesIn(r.sous_ensembles[i], comp, r.defect_column)
                    /\ \A j \in 1..(i - 1) :
                           ~MatchesIn(r.sous_ensembles[j], comp, r.defect_column)
            Before(x, y) ==
                \/ FirstS(x) < FirstS(y)
                \/ FirstS(x) = FirstS(y) /\ Index(x, comps) < Index(y, comps)
        IN  /\ \A i \in 1..Len(comps) : InSeq(comps[i], bonnes) <=> Validated(comps[i])
            /\ \A i \in 1..Len(bonnes) : InSeq(bonnes[i], comps)
            /\ NoDuplicates(bonnes)
            /\ \A i, j \in 1..Len(bonnes) : i < j => Before(bonnes[i], bonnes[j])

\* two sub-assemblies; a component validated by the second only comes after
\* one validated by the first although it is listed before it; a validated
\* component has a column of another colour; a component is not validated
C10_Witness ==
    /\ Returned("get_filtered_hierarchy") /\ ColourSourceUp
    /\ Len(last.res.val.sous_ensembles) = 2
    /\ LET r == last.res.val
           S1 == r.sous_ensembles[1]
       IN  /\ Len(r.bonnes_composants) = 1
           /\ Len(Unfiltered.composants) = 2
           /\ \E c \in 0..73 :
                  /\ HoldsTrimmed(data, 15, c, r.bonnes_composants[1])
                  /\ \A i \in 1..2 :
                         ColourOf(r.sous_ensembles[i], c)
                             # ColourOf(r.sous_ensembles[i], r.defect_column)

\* the validated list in an order that is not the unfiltered one: the
\* first sub-assembly validates the second component only
C10_WitnessOrder ==
    /\ Returned("get_filtered_hierarchy") /\ ColourSourceUp
    /\ Len(last.res.val.bonnes_composants) = 2
    /\ last.res.val.bonnes_composants # Unfiltered.composants

(***************************************************************************)
(* C11  In every result of get_filtered_hierarchy the parameters are the   *)
(* unfiltered parameters of analyze_defect that have a validated           *)
(* component, in the same order, name and value unchanged; each kept       *)
(* parameter's components are its original components restricted to the   *)
(* validated ones, order kept, and never empty.                            *)
(***************************************************************************)
C11_ParametersRestrictedToValidated ==
    Returned("get_filtered_hierarchy") =>
        LET r == last.res.val
            bonnes == r.bonnes_composants
            params == IF "error" \in DOMAIN Unfiltered THEN <<>>
                      ELSE Unfiltered.parametres
            \* the positions of the components of a parameter that are validated
            Surviving(param) ==
                {k \in 1..Len(param.components) : InSeq(param.components[k], bonnes)}
            kept == {i \in 1..Len(params) : Surviving(params[i]) # {}}
            Kept(i, out) ==
                LET From(k, item) == item = params[i].components[k]
                IN  /\ out.name = params[i].name
                    /\ out.value = params[i].value
                    /\ out.components # <<>>
                    /\ ListsInOrder(out.components, Surviving(params[i]), From)
        IN  ListsInOrder(r.parametres, kept, Kept)

\* a parameter is kept with fewer components than it had, and another
\* parameter is dropped
C11_Witness ==
    /\ Returned("get_filtered_hierarchy")
    /\ "error" \notin DOMAIN Unfiltered
    /\ LET r == last.res.val
           params == Unfiltered.parametres
       IN  /\ r.parametres # <<>>
           /\ Len(r.parametres) < Len(params)
           /\ \E i \in 1..Len(params) :
                  /\ params[i].name = r.parametres[1].name
                  /\ Len(r.parametres[1].components) < Len(params[i].components)

(***************************************************************************)
(* C12  Two calls of get_filtered_hierarchy in a row, same analyzer, grid  *)
(* and defect name, return identical results: whatever the first call      *)
(* leaves behind (workbook opened or not, position of the file) does not   *)
(* change the second, also when the workbook failed to open.               *)
(***************************************************************************)
C12_SecondCallSameResult ==
    [][(/\ last.op = "get_filtered_hierarchy"
        /\ last'.op = "get_filtered_hierarchy"
        /\ last'.name = last.name) => last'.res = last.res]_vars

\* a repeated call on a workbook the first call opened, with colours that
\* validate some components and reject others
C12_Witness ==
    /\ Returned("get_filtered_hierarchy")
    /\ last.again
    /\ ColourSourceUp
    /\ "error" \notin DOMAIN Unfiltered
    /\ last.res.val.bonnes_composants # <<>>
    /\ Len(last.res.val.bonnes_composants) < Len(Unfiltered.composants)

\* a repeated call after the workbook failed to open on the first one,
\* which left the file at its end
C12_WitnessFailedLoad ==
    /\ Returned("get_filtered_hierarchy")
    /\ last.again
    /\ xlrd_book = "None"
    /\ excel_file.pos = 1
    /\ "error" \notin DOMAIN Unfiltered
    /\ last.res.val.bonnes_composants # <<>>

(***************************************************************************)
(* C13  The row ranges of the resolvers agree within one analysis: in a    *)
(* grid with unique sub-assembly labels, a name that analyze_defect lists  *)
(* from the marker row r (rows 3-14) is found at that row r by the row     *)
(* lookup of get_composants and get_parametres, and when the row holds a   *)
(* marker at a named column of 0-73 the analysis lists a component of it.  *)
(***************************************************************************)
C13_RowRangesAgree ==
    (Returned("analyze_defect") /\ "error" \notin DOMAIN last.res.val) =>
        LET r == last.res.val
        IN  \A i \in 1..Len(r.sous_ensembles) :
            \A row \in MarkedRows(data, r.defect_column) :
                LET name == r.sous_ensembles[i]
                    named == {c \in MarkerCols(data, row) : HoldsName(data, 15, c)}
                IN  {q \in 3..14 : HoldsTrimmed(data, q, 75, name)} = {row} =>
                        /\ FindSubRow(data, name) = Ret(row)
                        /\ named # {} =>
                               \E c \in named, j \in 1..Len(r.composants) :
                                   HoldsTrimmed(data, 15, c, r.composants[j])

====
